---- MODULE Spec2Model ----
(***************************************************************************)
(* Model of the SQL statement builder of niklucky/vodka                     *)
(* (package builders, type postgres, src/repositories/postgres.go:388-766). *)
(*                                                                         *)
(* Go strings are modelled as sequences of one-character strings, so that   *)
(* concatenation is \o, strings.Index is a search and the rendered SQL can  *)
(* be compared character by character.  Go maps are functions; the order    *)
(* in which `range` visits a map is chosen nondeterministically by Build.   *)
(* interface{} values are records [type, v] tagged with their dynamic type. *)
(***************************************************************************)
EXTENDS Integers, Sequences, FiniteSets, TLC

VARIABLES queryType, parts, sources, ret, calls, lastKind, tableSetBy,
          lastWhereArg, droppedKeys, whereCalls, wildcardBuilt

vars == <<queryType, parts, sources, ret, calls, lastKind, tableSetBy,
          lastWhereArg, droppedKeys, whereCalls, wildcardBuilt>>

(***************************************************************************)
(* Bounds of the model.                                                     *)
(***************************************************************************)
MaxCalls == 5

(***************************************************************************)
(* String constants of the package.                                        *)
(***************************************************************************)
queryTypeSelect == <<"S","E","L","E","C","T">>
queryTypeInsert == <<"I","N","S","E","R","T">>
queryTypeUpdate == <<"U","P","D","A","T","E">>
queryTypeDelete == <<"D","E","L","E","T","E">>
queryTypeNone == << >>
tablePrefix == <<"u">>

FloatPrec == 8
DecimalBase == 10

(***************************************************************************)
(* strings / strconv / fmt helpers.                                        *)
(***************************************************************************)
DigitChars == <<"0","1","2","3","4","5","6","7","8","9">>
LowerChars == <<"a","b","c","d","e","f","g","h","i","j","k","l","m",
                "n","o","p","q","r","s","t","u","v","w","x","y","z">>
UpperChars == <<"A","B","C","D","E","F","G","H","I","J","K","L","M",
                "N","O","P","Q","R","S","T","U","V","W","X","Y","Z">>

RECURSIVE Digits(_)
Digits(n) ==
    IF n < DecimalBase THEN <<DigitChars[n + 1]>>
    ELSE Digits(n \div DecimalBase) \o <<DigitChars[(n % DecimalBase) + 1]>>

\* strconv.FormatInt(v, 10) and strconv.Itoa(v)
FormatInt(n) == IF n < 0 THEN <<"-">> \o Digits(0 - n) ELSE Digits(n)

RECURSIVE Pow(_, _)
Pow(b, e) == IF e = 0 THEN 1 ELSE b * Pow(b, e - 1)

RECURSIVE PadLeft(_, _)
PadLeft(s, n) == IF Len(s) >= n THEN s ELSE PadLeft(<<"0">> \o s, n)

\* strconv.FormatFloat(v, 'f', 8, 64); the float v is given as the integer
\* number of 10^-8 units it rounds to.
FormatFloat(u) ==
    LET a == IF u < 0 THEN 0 - u ELSE u
        scale == Pow(DecimalBase, FloatPrec)
    IN  (IF u < 0 THEN <<"-">> ELSE << >>)
        \o Digits(a \div scale) \o <<".">>
        \o PadLeft(Digits(a % scale), FloatPrec)

RECURSIVE StringsJoin(_, _)
StringsJoin(ss, sep) ==
    IF Len(ss) = 0 THEN << >>
    ELSE IF Len(ss) = 1 THEN ss[1]
    ELSE ss[1] \o sep \o StringsJoin(Tail(ss), sep)

\* strings.Index(s, sub) # -1 / strings.Contains(s, sub)
StringsContains(s, sub) ==
    \E i \in 1..(Len(s) - Len(sub) + 1) : SubSeq(s, i, i + Len(sub) - 1) = sub

ToUpperChar(c) ==
    IF \E i \in 1..Len(LowerChars) : LowerChars[i] = c
    THEN UpperChars[CHOOSE i \in 1..Len(LowerChars) : LowerChars[i] = c]
    ELSE c

StringsToUpper(s) == [i \in 1..Len(s) |-> ToUpperChar(s[i])]

\* fmt.Sprint of a single operand of the dynamic types the model uses.
SprintValue(value) ==
    CASE value.type = "string" -> value.v
      [] value.type = "bool" ->
           IF value.v THEN <<"t","r","u","e">> ELSE <<"f","a","l","s","e">>
      [] OTHER -> FormatInt(value.v)

toString(value) ==
    CASE value.type = "float64" -> FormatFloat(value.v)
      [] value.type = "int64" -> FormatInt(value.v)
      [] value.type = "int" -> FormatInt(value.v)
      [] OTHER -> <<"'">> \o SprintValue(value) \o <<"'">>

(***************************************************************************)
(* Alias registry.  A nil map and an empty map read alike.                  *)
(***************************************************************************)
addToSources(src, table, id) ==
    [t \in (DOMAIN src) \cup {table} |-> IF t = table THEN id ELSE src[t]]

getAliasBySource(src, source) ==
    IF source \in DOMAIN src /\ src[source] # << >> THEN src[source] ELSE source

(***************************************************************************)
(* Clause renderers.  b is the builder value [queryType, parts, sources];   *)
(* kw and kd are the orders in which range visits parts.where and the       *)
(* payload map.                                                             *)
(***************************************************************************)
Perms(S) ==
    {s \in [1..Cardinality(S) -> S] :
        \A i, j \in 1..Cardinality(S) : i # j => s[i] # s[j]}

RECURSIVE Flatten(_)
Flatten(ss) == IF Len(ss) = 0 THEN << >> ELSE ss[1] \o Flatten(Tail(ss))

buildTable(b, alias) ==
    IF alias = FALSE
    THEN <<" ">> \o b.parts.table
    ELSE <<" ">> \o b.parts.table \o <<" ","a","s"," ">>
         \o getAliasBySource(b.sources, b.parts.table)

buildFrom(b, alias) == <<" ","F","R","O","M"," ">> \o buildTable(b, alias)

\* The assignment buildFields makes to the receiver's parts.fields.
buildFieldsParts(p) ==
    IF Len(p.fields) = 0 THEN [p EXCEPT !.fields = << <<"*">> >>] ELSE p

buildFields(b) ==
    LET p == buildFieldsParts(b.parts)
        own == [i \in 1..Len(p.fields) |->
                  getAliasBySource(b.sources, p.table) \o <<".">> \o p.fields[i]]
        joined == Flatten([i \in 1..Len(p.join) |->
                  [k \in 1..Len(p.join[i].Fields) |->
                      p.join[i].Source \o <<".">> \o p.join[i].Fields[k]]])
    IN  <<" ">> \o StringsJoin(own \o joined, <<",", " ">>)

buildJoinOne(b, j) ==
    <<" ">> \o StringsToUpper(j.Type) \o <<" ","J","O","I","N"," ">> \o j.Source
    \o <<" ","A","S"," ">> \o j.Source \o <<" ","O","N"," ">>
    \o j.Source \o <<".">> \o j.Key \o <<" ","="," ">>
    \o getAliasBySource(b.sources, b.parts.table) \o <<".">> \o j.TargetKey

buildJoin(b) ==
    Flatten([i \in 1..Len(b.parts.join) |-> buildJoinOne(b, b.parts.join[i])])

\* HasSign as it would be if only `=` were looked for.
HasSign_OnlyEquals(key) == StringsContains(key, <<"=">>)

HasSign(key) ==
    StringsContains(key, <<"=">>) \/ StringsContains(key, <<">">>)
    \/ StringsContains(key, <<"<">>)

\* buildWhereTerm as it would be if the members of a []string were not quoted
\* and a []int64 were walked from its end.
buildWhereTerm_PlainMembers(b, key, value) ==
    LET a == getAliasBySource(b.sources, b.parts.table)
        inOpen == <<" ","I","N"," ","(">>
    IN  CASE value.type = "[]int64" ->
               a \o <<".">> \o key \o inOpen
               \o StringsJoin([i \in 1..Len(value.v) |->
                                 FormatInt(value.v[Len(value.v) + 1 - i])], <<",">>)
               \o <<")">>
          [] value.type = "[]string" ->
               a \o <<".">> \o key \o inOpen
               \o StringsJoin(value.v, <<",">>)
               \o <<")">>
          [] OTHER ->
               a \o <<".">> \o key \o (IF HasSign(key) THEN << >> ELSE <<"=">>)
               \o toString(value)

\* One iteration of the loop of buildWhere.
buildWhereTerm(b, key, value) ==
    LET a == getAliasBySource(b.sources, b.parts.table)
        inOpen == <<" ","I","N"," ","(">>
    IN  CASE value.type = "[]int64" ->
               a \o <<".">> \o key \o inOpen
               \o StringsJoin([i \in 1..Len(value.v) |-> FormatInt(value.v[i])], <<",">>)
               \o <<")">>
          [] value.type = "[]string" ->
               a \o <<".">> \o key \o inOpen
               \o StringsJoin([i \in 1..Len(value.v) |->
                                 <<"'">> \o value.v[i] \o <<"'">>], <<",">>)
               \o <<")">>
          [] OTHER ->
               a \o <<".">> \o key \o (IF HasSign(key) THEN << >> ELSE <<"=">>)
               \o toString(value)

\* buildWhere as it would be if the last key visited were left out.
buildWhere_DropsLast(b, kw) ==
    IF Cardinality(DOMAIN b.parts.where) = 0 THEN << >>
    ELSE <<" ","W","H","E","R","E"," ">>
         \o StringsJoin([i \in 1..(IF Len(kw) > 1 THEN Len(kw) - 1 ELSE Len(kw)) |->
                           buildWhereTerm(b, kw[i], b.parts.where[kw[i]])],
                        <<" ","A","N","D"," ">>)

buildWhere(b, kw) ==
    IF Cardinality(DOMAIN b.parts.where) = 0 THEN << >>
    ELSE <<" ","W","H","E","R","E"," ">>
         \o StringsJoin([i \in 1..Len(kw) |->
                           buildWhereTerm(b, kw[i], b.parts.where[kw[i]])],
                        <<" ","A","N","D"," ">>)

\* The payload as a map: the type assertion insertData.(map[string]interface{}).
IsMap(data) == data.type = "map"

DataKeys(data) == IF IsMap(data) THEN DOMAIN data.v ELSE {}

buildSetter(b, kd) ==
    IF Cardinality(DOMAIN b.parts.where) = 0 THEN << >>
    ELSE <<" ","S","E","T"," ">>
         \o StringsJoin([i \in 1..Len(kd) |->
                           kd[i] \o <<" ","="," ">>
                           \o toString(b.parts.insertData.v[kd[i]])],
                        <<",", " ">>)

buildValues(b, kd) ==
    <<"(">> \o StringsJoin(kd, <<",">>)
    \o <<")"," ","V","A","L","U","E","S"," ","(">>
    \o StringsJoin([i \in 1..Len(kd) |-> toString(b.parts.insertData.v[kd[i]])],
                   <<",">>)
    \o <<")">>

buildLimit(b) ==
    IF b.parts.limit # 0
    THEN <<" ","L","I","M","I","T"," ">> \o FormatInt(b.parts.limit)
         \o <<" ","O","F","F","S","E","T"," ">> \o FormatInt(b.parts.offset)
    ELSE << >>

buildOrderItem(b, o) ==
    (IF StringsContains(o.OrderBy, <<".">>) = FALSE
     THEN getAliasBySource(b.sources, b.parts.table) \o <<".">> \o o.OrderBy
     ELSE o.OrderBy)
    \o (IF o.Asc THEN <<" ","A","S","C">> ELSE << >>)
    \o (IF o.Desc THEN <<" ","D","E","S","C">> ELSE << >>)

buildOrderBy(b) ==
    IF Len(b.parts.order) > 0
    THEN <<" ","O","R","D","E","R"," ","B","Y"," ">>
         \o StringsJoin([i \in 1..Len(b.parts.order) |->
                           buildOrderItem(b, b.parts.order[i])], <<",">>)
    ELSE << >>

buildSelect(b, kw) ==
    queryTypeSelect \o buildFields(b) \o buildFrom(b, TRUE) \o buildJoin(b)
    \o buildWhere(b, kw) \o buildOrderBy(b) \o buildLimit(b)

buildInsert(b, kd) ==
    queryTypeInsert \o <<" ","I","N","T","O"," ">> \o b.parts.table
    \o buildValues(b, kd)
    \o (IF b.parts.returnID # << >>
        THEN <<" ","R","E","T","U","R","N","I","N","G"," ">> \o b.parts.returnID
        ELSE << >>)

buildDelete(b, kw) == queryTypeDelete \o buildFrom(b, TRUE) \o buildWhere(b, kw)

\* buildUpdate as it would be if it rendered the pagination as buildSelect does.
buildUpdate_WithLimit(b, kw, kd) ==
    queryTypeUpdate \o buildTable(b, TRUE) \o buildSetter(b, kd)
    \o buildWhere(b, kw) \o buildLimit(b)

buildUpdate(b, kw, kd) ==
    queryTypeUpdate \o buildTable(b, TRUE) \o buildSetter(b, kd)
    \o buildWhere(b, kw)

\* Build as it would be without the branch for DELETE.
BuildString_NoDelete(b, kw, kd) ==
    IF b.queryType = queryTypeSelect THEN buildSelect(b, kw)
    ELSE IF b.queryType = queryTypeInsert THEN buildInsert(b, kd)
    ELSE IF b.queryType = queryTypeUpdate THEN buildUpdate(b, kw, kd)
    ELSE << >>

\* The string Build returns.
BuildString(b, kw, kd) ==
    IF b.queryType = queryTypeSelect THEN buildSelect(b, kw)
    ELSE IF b.queryType = queryTypeInsert THEN buildInsert(b, kd)
    ELSE IF b.queryType = queryTypeDelete THEN buildDelete(b, kw)
    ELSE IF b.queryType = queryTypeUpdate THEN buildUpdate(b, kw, kd)
    ELSE << >>

\* The receiver of Build as its renderers leave it: only buildSelect, through
\* buildFields, assigns to it.
BuildReceiver(b) ==
    IF b.queryType = queryTypeSelect
    THEN [b EXCEPT !.parts = buildFieldsParts(b.parts)]
    ELSE b

\* Build as it would be with a pointer receiver: the caller's builder is the
\* one the renderers assigned to.
BuildCallerState_PointerReceiver(before, receiver) == receiver

\* Build has a value receiver: the renderers work on a copy of the builder,
\* and the caller's builder keeps the value it had.
BuildCallerState(before, receiver) == before

(***************************************************************************)
(* Inputs of the configuration calls.                                       *)
(***************************************************************************)
T_users == <<"u","s","e","r","s">>
T_t == <<"t">>
Tables == {T_users, T_t}

K_id == <<"i","d">>
K_name == <<"n","a","m","e">>
K_ageGt == <<"a","g","e",">">>
K_nLe == <<"n","<","=">>

FieldLists == {<< >>, <<K_id>>}

V_int(n) == [type |-> "int", v |-> n]
V_int64(n) == [type |-> "int64", v |-> n]
V_float64(u) == [type |-> "float64", v |-> u]
V_string(str) == [type |-> "string", v |-> str]
V_bool(x) == [type |-> "bool", v |-> x]
V_int64s(ns) == [type |-> "[]int64", v |-> ns]
V_strings(ss) == [type |-> "[]string", v |-> ss]

W_empty == << >>
W_id == K_id :> V_int(5)
W_scalars ==
    K_ageGt :> V_int64(18) @@ K_name :> V_string(<<"b","o","b">>)
    @@ K_nLe :> V_float64(0 - 150000000)
W_lists ==
    K_id :> V_int64s(<<3, 1, 2>>) @@ K_name :> V_strings(<< <<"b">>, <<"a">> >>)
WhereMaps == {W_empty, W_id, W_scalars, W_lists}

D_nil == [type |-> "nil", v |-> << >>]
D_ab == [type |-> "map", v |-> <<"a">> :> V_int(1) @@ <<"b">> :> V_bool(TRUE)]
D_notMap == V_string(<<"x">>)
Payloads == {D_ab, D_notMap}

J_t ==
    [Source |-> T_t, Key |-> <<"u","i","d">>, TargetKey |-> K_id,
     Type |-> <<"l","e","f","t">>, Fields |-> << <<"r","a","n","k">> >>]
JoinSpecs == {J_t}

O_created == [OrderBy |-> <<"c","r","e","a","t","e","d">>, Asc |-> TRUE, Desc |-> FALSE]
O_rank == [OrderBy |-> <<"t",".","r","a","n","k">>, Asc |-> FALSE, Desc |-> TRUE]
OrderSpecs == {O_created, O_rank}

Limits == {<<10, 0>>, <<1, 0>>}

ReturnIDs == {K_id}

(***************************************************************************)
(* The builder after construction: the zero value of postgres.              *)
(***************************************************************************)
NoString == << >>

RetBuilder == [kind |-> "Builder", sql |-> NoString]

Init ==
    /\ queryType = queryTypeNone
    /\ parts = [table |-> NoString, fields |-> << >>, where |-> W_empty,
                join |-> << >>, order |-> << >>, limit |-> 0, offset |-> 0,
                insertData |-> D_nil, returnID |-> NoString]
    /\ sources = << >>
    /\ ret = RetBuilder
    /\ calls = 0
    /\ lastKind = "none"
    /\ tableSetBy = "none"
    /\ lastWhereArg = W_empty
    /\ droppedKeys = FALSE
    /\ whereCalls = 0
    /\ wildcardBuilt = FALSE

(***************************************************************************)
(* The configuration calls.  The builder is queryType, parts and sources;   *)
(* ret is the value the last call returned.  The other variables record the *)
(* history of the calls and are never read by the builder:                  *)
(*   calls          number of calls made so far                             *)
(*   lastKind       the last of Select/Insert/Update/Delete called          *)
(*   tableSetBy     the method that last assigned parts.table               *)
(*   lastWhereArg   the argument of the last Where call                     *)
(*   droppedKeys    the last Where call's map lacked a key of the one before*)
(*   whereCalls     number of Where calls made so far                       *)
(*   wildcardBuilt  a SELECT was built while no fields were set             *)
(***************************************************************************)
Select(fields) ==
    /\ queryType' = queryTypeSelect
    /\ parts' = [parts EXCEPT !.fields = parts.fields \o fields]
    /\ ret' = RetBuilder
    /\ lastKind' = "Select"
    /\ UNCHANGED <<sources, tableSetBy, lastWhereArg, droppedKeys, whereCalls, wildcardBuilt>>

Insert(table) ==
    /\ queryType' = queryTypeInsert
    /\ parts' = [parts EXCEPT !.table = table]
    /\ ret' = RetBuilder
    /\ lastKind' = "Insert"
    /\ tableSetBy' = "Insert"
    /\ UNCHANGED <<sources, lastWhereArg, droppedKeys, whereCalls, wildcardBuilt>>

Update(table) ==
    /\ queryType' = queryTypeUpdate
    /\ parts' = [parts EXCEPT !.table = table]
    /\ sources' = addToSources(sources, table, tablePrefix)
    /\ ret' = RetBuilder
    /\ lastKind' = "Update"
    /\ tableSetBy' = "FromOrUpdate"
    /\ UNCHANGED <<lastWhereArg, droppedKeys, whereCalls, wildcardBuilt>>

Delete ==
    /\ queryType' = queryTypeDelete
    /\ ret' = RetBuilder
    /\ lastKind' = "Delete"
    /\ UNCHANGED <<parts, sources, tableSetBy, lastWhereArg, droppedKeys, whereCalls,
                   wildcardBuilt>>

Values(data) ==
    /\ parts' = [parts EXCEPT !.insertData = data]
    /\ ret' = RetBuilder
    /\ UNCHANGED <<queryType, sources, lastKind, tableSetBy, lastWhereArg, droppedKeys,
                   whereCalls, wildcardBuilt>>

Set(data) == Values(data)

From(table) ==
    /\ parts' = [parts EXCEPT !.table = table]
    /\ sources' = addToSources(sources, table, tablePrefix)
    /\ ret' = RetBuilder
    /\ tableSetBy' = "FromOrUpdate"
    /\ UNCHANGED <<queryType, lastKind, lastWhereArg, droppedKeys, whereCalls, wildcardBuilt>>

ReturnID(id) ==
    /\ parts' = [parts EXCEPT !.returnID = id]
    /\ ret' = RetBuilder
    /\ UNCHANGED <<queryType, sources, lastKind, tableSetBy, lastWhereArg, droppedKeys,
                   whereCalls, wildcardBuilt>>

\* Where as it would be if it merged the new map into the old one.
WhereAssign_Merge(old, where) ==
    [k \in (DOMAIN old) \cup (DOMAIN where) |->
        IF k \in DOMAIN where THEN where[k] ELSE old[k]]

\* The predicate map the builder holds after Where(where).
WhereAssign(old, where) == where

Where(where) ==
    /\ parts' = [parts EXCEPT !.where = WhereAssign(parts.where, where)]
    /\ ret' = RetBuilder
    /\ lastWhereArg' = where
    /\ droppedKeys' = ((DOMAIN lastWhereArg) \ (DOMAIN where) # {})
    /\ whereCalls' = whereCalls + 1
    /\ UNCHANGED <<queryType, sources, lastKind, tableSetBy, wildcardBuilt>>

Join(jp) ==
    /\ parts' = [parts EXCEPT !.join = Append(parts.join, jp)]
    /\ sources' = addToSources(sources, jp.Source, jp.Source)
    /\ ret' = RetBuilder
    /\ UNCHANGED <<queryType, lastKind, tableSetBy, lastWhereArg, droppedKeys, whereCalls,
                   wildcardBuilt>>

Order(o) ==
    /\ parts' = [parts EXCEPT !.order = Append(parts.order, o)]
    /\ ret' = RetBuilder
    /\ UNCHANGED <<queryType, sources, lastKind, tableSetBy, lastWhereArg, droppedKeys,
                   whereCalls, wildcardBuilt>>

Limit(limit, offset) ==
    /\ parts' = [parts EXCEPT !.limit = limit, !.offset = offset]
    /\ ret' = RetBuilder
    /\ UNCHANGED <<queryType, sources, lastKind, tableSetBy, lastWhereArg, droppedKeys,
                   whereCalls, wildcardBuilt>>

Build ==
    \E kw \in Perms(DOMAIN parts.where), kd \in Perms(DataKeys(parts.insertData)) :
        LET b == [queryType |-> queryType, parts |-> parts, sources |-> sources]
            after == BuildCallerState(b, BuildReceiver(b))
        IN  /\ ret' = [kind |-> "string", sql |-> BuildString(b, kw, kd)]
            /\ queryType' = after.queryType
            /\ parts' = after.parts
            /\ sources' = after.sources
            /\ wildcardBuilt' = (wildcardBuilt \/ (queryType = queryTypeSelect
                                                   /\ Len(parts.fields) = 0))
            /\ UNCHANGED <<lastKind, tableSetBy, lastWhereArg, droppedKeys, whereCalls>>

\* One call of a method of the builder; the model follows a builder through
\* its first MaxCalls calls.
Call(method) == calls < MaxCalls /\ calls' = calls + 1 /\ method

Next ==
    \/ \E fields \in FieldLists : Call(Select(fields))
    \/ \E table \in Tables : Call(Insert(table))
    \/ \E table \in Tables : Call(Update(table))
    \/ Call(Delete)
    \/ \E data \in Payloads : Call(Values(data))
    \/ \E data \in Payloads : Call(Set(data))
    \/ \E table \in Tables : Call(From(table))
    \/ \E id \in ReturnIDs : Call(ReturnID(id))
    \/ \E where \in WhereMaps : Call(Where(where))
    \/ \E jp \in JoinSpecs : Call(Join(jp))
    \/ \E o \in OrderSpecs : Call(Order(o))
    \/ \E l \in Limits : Call(Limit(l[1], l[2]))
    \/ Call(Build)

Spec == Init /\ [][Next]_vars

(***************************************************************************)
(* Reading a rendered statement.                                           *)
(***************************************************************************)
HasPrefix(s, prefix) == Len(s) >= Len(prefix) /\ SubSeq(s, 1, Len(prefix)) = prefix

Occurrences(s, sub) ==
    {i \in 1..(Len(s) - Len(sub) + 1) : SubSeq(s, i, i + Len(sub) - 1) = sub}

Count(s, sub) == Cardinality(Occurrences(s, sub))

FirstIndex(s, sub) ==
    IF Occurrences(s, sub) = {} THEN 0
    ELSE CHOOSE i \in Occurrences(s, sub) : \A j \in Occurrences(s, sub) : i <= j

KwWhere == <<" ","W","H","E","R","E"," ">>
KwOrderBy == <<" ","O","R","D","E","R"," ","B","Y"," ">>
KwLimit == <<" ","L","I","M","I","T"," ">>
KwAnd == <<" ","A","N","D"," ">>
KwSet == <<" ","S","E","T"," ">>

\* The WHERE clause of a statement: from " WHERE " up to " ORDER BY ", " LIMIT "
\* or the end.  None of the inputs of the model contains these words.
WhereClauseOf(s) ==
    LET from == FirstIndex(s, KwWhere)
        o == FirstIndex(s, KwOrderBy)
        l == FirstIndex(s, KwLimit)
        to == IF o # 0 THEN o - 1 ELSE IF l # 0 THEN l - 1 ELSE Len(s)
    IN  IF from = 0 THEN << >> ELSE SubSeq(s, from, to)

Built == ret.kind = "string"

\* The alias that qualifies the columns of the primary table.
PrimaryAlias == getAliasBySource(sources, parts.table)

AllWhereKeys == UNION {DOMAIN m : m \in WhereMaps}

IsScalar(value) == value.type \notin {"[]int64", "[]string"}

\* The start of the predicate term of key k in a WHERE clause.
TermStart(k) == <<" ">> \o PrimaryAlias \o <<".">> \o k

(***************************************************************************)
(* C1: Build renders the statement kind of the most recent call among       *)
(* Select/Insert/Update/Delete, whatever other calls were made; if none of  *)
(* the four was called, Build returns the empty string.                     *)
(***************************************************************************)
C1_BuildDispatchesOnLastKind ==
    Built =>
        /\ lastKind = "Select" => HasPrefix(ret.sql, <<"S","E","L","E","C","T"," ">>)
        /\ lastKind = "Insert" =>
               HasPrefix(ret.sql, <<"I","N","S","E","R","T"," ","I","N","T","O"," ">>)
        /\ lastKind = "Update" => HasPrefix(ret.sql, <<"U","P","D","A","T","E"," ">>)
        /\ lastKind = "Delete" =>
               HasPrefix(ret.sql, <<"D","E","L","E","T","E"," ","F","R","O","M"," ">>)
        /\ lastKind = "none" => ret.sql = << >>

\* A DELETE built after an earlier Select and after Where, Values and Limit calls.
C1_Witness ==
    /\ Built
    /\ lastKind = "Delete"
    /\ Len(parts.fields) > 0
    /\ parts.where = W_id
    /\ parts.limit = 10

(***************************************************************************)
(* C2: on a fresh builder, Select(["id"]).From("users").Where({"id": 5})    *)
(* .Limit(10, 0).Build() is exactly                                         *)
(* `SELECT u.id FROM users as u WHERE u.id=5 LIMIT 10 OFFSET 0`.            *)
(***************************************************************************)
C2_Configured ==
    /\ calls = 5
    /\ Built
    /\ queryType = queryTypeSelect
    /\ parts = [table |-> T_users, fields |-> <<K_id>>, where |-> W_id,
                join |-> << >>, order |-> << >>, limit |-> 10, offset |-> 0,
                insertData |-> D_nil, returnID |-> NoString]

C2_Expected ==
    <<"S","E","L","E","C","T"," ","u",".","i","d"," ","F","R","O","M"," ",
      "u","s","e","r","s"," ","a","s"," ","u"," ","W","H","E","R","E"," ",
      "u",".","i","d","=","5"," ","L","I","M","I","T"," ","1","0"," ",
      "O","F","F","S","E","T"," ","0">>

\* C2: the statement built from that configuration is exactly the expected
\* string, its tokens separated by single spaces.
C2_ExactSelect == C2_Configured => ret.sql = C2_Expected

(***************************************************************************)
(* C3: an UPDATE whose payload is a non-empty mapping renders a SET clause  *)
(* with exactly one `col = value` term per payload entry, whether or not a  *)
(* predicate map was set.                                                   *)
(***************************************************************************)
C3_SetClauseFromPayload ==
    (Built /\ lastKind = "Update" /\ parts.insertData = D_ab) =>
        /\ Count(ret.sql, KwSet) = 1
        /\ Count(ret.sql, <<"a"," ","="," ","1">>) = 1
        /\ Count(ret.sql, <<"b"," ","="," ","'","t","r","u","e","'">>) = 1
        /\ Count(ret.sql, <<" ","="," ">>) = 2

(***************************************************************************)
(* C4: when the primary table was set by From or Update, at the moment      *)
(* Build renders a SELECT, UPDATE or DELETE the registry maps parts.table   *)
(* to the default alias and the table is rendered under it, whatever Join   *)
(* calls were made before or after.                                         *)
(***************************************************************************)
C4_PrimaryTableHasDefaultAlias ==
    (Built /\ lastKind \in {"Select", "Update", "Delete"}
           /\ tableSetBy = "FromOrUpdate") =>
        /\ PrimaryAlias = <<"u">>
        /\ Count(ret.sql, <<" ">> \o parts.table \o <<" ","a","s"," ","u">>) = 1

(***************************************************************************)
(* C5: the string Build returns for an UPDATE never contains a LIMIT or     *)
(* OFFSET clause, whatever was passed to Limit.                             *)
(***************************************************************************)
C5_UpdateHasNoLimit ==
    (Built /\ lastKind = "Update") =>
        /\ Count(ret.sql, <<"L","I","M","I","T">>) = 0
        /\ Count(ret.sql, <<"O","F","F","S","E","T">>) = 0

\* An UPDATE with payload and predicate built after Limit(1, 0).
C5_Witness ==
    /\ Built
    /\ lastKind = "Update"
    /\ parts.limit = 1
    /\ parts.insertData = D_ab
    /\ parts.where = W_id

(***************************************************************************)
(* C6: Where replaces the predicate map: the builder holds exactly the map  *)
(* of the last Where call, a statement built from it has predicate terms    *)
(* for the keys of that map and for no other key, and a Where call changes  *)
(* nothing of the builder but the predicate map.                            *)
(***************************************************************************)
C6_HoldsLastMap ==
    /\ parts.where = lastWhereArg
    /\ (Built /\ lastKind \in {"Select", "Update", "Delete"}) =>
           \A k \in AllWhereKeys :
               Count(WhereClauseOf(ret.sql), TermStart(k))
                   = (IF k \in DOMAIN lastWhereArg THEN 1 ELSE 0)

C6_WhereFrame ==
    whereCalls' # whereCalls =>
        /\ parts' = [parts EXCEPT !.where = lastWhereArg']
        /\ queryType' = queryType
        /\ sources' = sources

\* C6: the builder always holds the map of the last Where call and renders
\* terms for its keys only, and every Where call leaves the rest of the
\* builder unchanged.
C6_WhereReplaces == [](C6_HoldsLastMap) /\ [][C6_WhereFrame]_vars

\* A SELECT built after a Where call whose map lacks a key of the map of the
\* Where call before it.
C6_Witness ==
    /\ Built
    /\ lastKind = "Select"
    /\ whereCalls >= 2
    /\ droppedKeys
    /\ parts.where = W_id

(***************************************************************************)
(* C7: for a non-empty predicate map of scalars, a SELECT has a WHERE clause*)
(* with one term per entry of the map, each qualified by the alias of the   *)
(* primary table, the terms joined by ` AND `.                              *)
(***************************************************************************)
C7_OneTermPerEntry ==
    (Built /\ lastKind = "Select" /\ DOMAIN parts.where # {}
           /\ \A k \in DOMAIN parts.where : IsScalar(parts.where[k])) =>
        LET wc == WhereClauseOf(ret.sql)
            n == Cardinality(DOMAIN parts.where)
        IN  /\ HasPrefix(wc, KwWhere \o PrimaryAlias \o <<".">>)
            /\ Count(wc, <<" ">> \o PrimaryAlias \o <<".">>) = n
            /\ Count(wc, KwAnd) = n - 1
            /\ Count(wc, KwAnd \o PrimaryAlias \o <<".">>) = n - 1
            /\ \A k \in DOMAIN parts.where : Count(wc, TermStart(k)) = 1

\* A SELECT from a registered table built with the three-entry scalar map.
C7_Witness ==
    /\ Built
    /\ lastKind = "Select"
    /\ parts.where = W_scalars
    /\ PrimaryAlias = <<"u">>

(***************************************************************************)
(* C8: a sequence of integers or of strings used as a predicate value is    *)
(* rendered as `<alias>.<key> IN (...)` with as many members as the         *)
(* sequence, in its order, strings single-quoted and integers bare.         *)
(***************************************************************************)
C8_InList ==
    (Built /\ lastKind \in {"Select", "Update", "Delete"} /\ parts.where = W_lists) =>
        LET wc == WhereClauseOf(ret.sql)
        IN  /\ Count(wc, TermStart(K_id)
                         \o <<" ","I","N"," ","(","3",",","1",",","2",")">>) = 1
            /\ Count(wc, TermStart(K_name)
                         \o <<" ","I","N"," ","(","'","b","'",",","'","a","'",")">>) = 1
            /\ Count(wc, <<",">>) = 3
            /\ Count(wc, <<"'">>) = 4

\* A DELETE built with the map of sequences.
C8_Witness ==
    /\ Built
    /\ lastKind = "Delete"
    /\ parts.where = W_lists
    /\ PrimaryAlias = <<"u">>

(***************************************************************************)
(* C9: a scalar predicate whose key contains none of `=`, `>`, `<` is       *)
(* rendered `<alias>.<key>=<value>`; one whose key contains any of them is  *)
(* rendered `<alias>.<key><value>` with no sign put in between.             *)
(***************************************************************************)
C9_SignInference ==
    (Built /\ lastKind \in {"Select", "Update", "Delete"}) =>
        LET wc == WhereClauseOf(ret.sql)
            ends(t) == \E i \in Occurrences(wc, t) :
                           \/ i + Len(t) - 1 = Len(wc)
                           \/ SubSeq(wc, i + Len(t), i + Len(t) + Len(KwAnd) - 1) = KwAnd
        IN  /\ parts.where = W_id => ends(TermStart(K_id) \o <<"=","5">>)
            /\ parts.where = W_scalars =>
                 /\ ends(TermStart(K_name) \o <<"=","'","b","o","b","'">>)
                 /\ ends(TermStart(K_ageGt) \o <<"1","8">>)
                 /\ ends(TermStart(K_nLe)
                         \o <<"-","1",".","5","0","0","0","0","0","0","0">>)

\* A SELECT built with the map that has keys with and without a sign.
C9_Witness ==
    /\ Built
    /\ lastKind = "Select"
    /\ parts.where = W_scalars
    /\ parts.table = T_users

(***************************************************************************)
(* C10: Build leaves the builder as it was: kind, parts and alias registry  *)
(* are unchanged by it, and the `*` it projects when no fields were set is  *)
(* not stored, so that a later Select(f) projects f alone.                  *)
(***************************************************************************)
C10_BuildFrame ==
    ret'.kind = "string" =>
        /\ queryType' = queryType
        /\ parts' = parts
        /\ sources' = sources

C10_NoWildcardStored ==
    /\ \A i \in 1..Len(parts.fields) : parts.fields[i] # <<"*">>
    /\ (Built /\ lastKind = "Select" /\ parts.fields = <<K_id>> /\ parts.join = << >>) =>
           HasPrefix(ret.sql, <<"S","E","L","E","C","T"," ">> \o PrimaryAlias
                              \o <<".","i","d"," ","F","R","O","M"," ">>)

\* C10: no `*` is ever stored in parts.fields, a SELECT projects the fields
\* set and no more, and every Build call leaves the builder unchanged.
C10_BuildIsPure == [](C10_NoWildcardStored) /\ [][C10_BuildFrame]_vars

\* Build of a SELECT without fields, then Select(["id"]), then Build again.
C10_Witness ==
    /\ Built
    /\ wildcardBuilt
    /\ lastKind = "Select"
    /\ parts.fields = <<K_id>>

====
